---- MODULE Spec2Model ----
(***************************************************************************)
(* A model of src/main.py: the Telegram moderation bot's per-post handler  *)
(* handle_message, its two classifier adapters is_spam / is_image_spam,    *)
(* the trust ledger safe_messages_count with its file safe_users.json and  *)
(* the context window recent_messages.                                     *)
(*                                                                         *)
(* Conventions.                                                            *)
(*  - A text is a sequence of tokens; the token " " is whitespace.  The    *)
(*    empty sequence stands for both None and '' (Python treats both as    *)
(*    false in `message.text or message.caption or ''`).                   *)
(*  - A confidence is held in hundredths: 70 is 0.7.                       *)
(*  - A JSON value of the oracle's reply is a string naming it: "true",    *)
(*    "false", or JStr, a non-empty JSON string standing where a boolean   *)
(*    was asked for.                                                       *)
(*  - handler[t] is one invocation of handle_message: its position pc,     *)
(*    its locals, and the calls it has made so far (events).               *)
(***************************************************************************)
EXTENDS Integers, Sequences, FiniteSets, TLC

(* ------------------------------ bounds --------------------------------- *)
MaxPosts == 1
MaxSeqPosts == 7
MaxTasks == 2
MaxSigns == 3
MaxQueued == 4

(* ------------------------- program constants --------------------------- *)
TRUST_THRESHOLD == 2
WINDOW_CAPACITY == 5
SPAM_CONFIDENCE == 70
SIGNS_CONFIDENCE == 60
MIN_SIGNS == 2
MAX_IMAGE_SIZE_MB == 5
BYTES_PER_MB == 1048576

NoName == "None"
Users == {"u1", "u2"}
\* Chat identifiers are held as strings: they exceed 32 bits.
ChatA == "-1001474293774"
ChatB == "-4684100667"
ChatOther == "-777"
allowed_chats == {"-1001474293774", "-1002051811264", "-4684100667", "-5111113304"}
Chats == {ChatA, ChatB, ChatOther}
\* Mutant: private chats are moderated as well.
GroupTypesMutant == {"group", "supergroup", "private"}

GroupTypes == {"group", "supergroup"}
Tasks == 1..MaxTasks

NoText == <<>>
TextA == <<"a">>
TextB == <<"b">>
Blank == <<" ">>
SpamPlaceholder == <<"here was a spam message">>

(* --------------------------- pure helpers ------------------------------ *)
RECURSIVE lstrip(_)
lstrip(s) == IF s # <<>> /\ Head(s) = " " THEN lstrip(Tail(s)) ELSE s

RECURSIVE rstrip(_)
rstrip(s) ==
  IF s # <<>> /\ s[Len(s)] = " " THEN rstrip(SubSeq(s, 1, Len(s) - 1)) ELSE s

strip(s) == rstrip(lstrip(s))

\* message.text or message.caption or ''
MessageText(post) ==
  IF post.text # <<>> THEN post.text
  ELSE IF post.caption # <<>> THEN post.caption ELSE <<>>

HasText(post) == strip(MessageText(post)) # <<>>

HasPhoto(post) == post.photo

\* file_size_mb > MAX_IMAGE_SIZE_MB, with (photo.file_size or 0)
\* Mutant: an image of exactly the ceiling's size is skipped as well.
OversizedMutant(post) == post.file_size >= MAX_IMAGE_SIZE_MB * BYTES_PER_MB

Oversized(post) == post.file_size > MAX_IMAGE_SIZE_MB * BYTES_PER_MB

\* Mutant: the allow-list test is dropped.
InAllowedChatsMutant(chat_id) == TRUE

InAllowedChats(chat_id) == chat_id \in allowed_chats

(* ------------------------- the oracle's replies ------------------------ *)
JTrue == "true"
JFalse == "false"
JStr == "\"false\""
Confidences == {50, 60, 70, 90}

Reply(k, s, c, n) == [kind |-> k, is_spam |-> s, confidence |-> c, signs |-> n]
NoResult == Reply("none", JFalse, 0, 0)

\* What client.chat.completions.create + json.loads + the key lookups can give:
\* the call raises (network, timeout), the content is not JSON, a key of the
\* reply is missing, or a JSON object with the four keys.
Responses ==
  {Reply("raise", JFalse, 0, 0), Reply("not_json", JFalse, 0, 0),
   Reply("missing_key", JFalse, 0, 0)}
  \cup {Reply("json", s, c, n) : s \in {JTrue, JFalse, JStr},
                                 c \in Confidences, n \in 0..MaxSigns}

\* Python truth of a JSON value.
Truthy(v) == v \in {JTrue, JStr}

\* Mutant: the confidence bars are strict.
DecisionRuleMutant(r) ==
  \/ (Truthy(r.is_spam) /\ r.confidence > SPAM_CONFIDENCE)
  \/ (r.signs >= MIN_SIGNS /\ r.confidence > SIGNS_CONFIDENCE)

\* (result['is_spam'] and result['confidence'] >= 0.7) or
\* (len(result['spam_signs']) >= 2 and result['confidence'] >= 0.6)
DecisionRule(r) ==
  \/ (Truthy(r.is_spam) /\ r.confidence >= SPAM_CONFIDENCE)
  \/ (r.signs >= MIN_SIGNS /\ r.confidence >= SIGNS_CONFIDENCE)

\* The try body of is_spam / is_image_spam; `except Exception` returns False.
Classify(r) == IF r.kind = "json" THEN DecisionRule(r) ELSE FALSE

(* ------------------------------ the posts ------------------------------ *)
Post(hu, u, n, b, c, ty, tx, cap, ph, sz) ==
  [has_user |-> hu, user |-> u, username |-> n, is_bot |-> b, chat |-> c,
   chat_type |-> ty, text |-> tx, caption |-> cap, photo |-> ph, file_size |-> sz]

NoPost == Post(FALSE, "u1", NoName, FALSE, ChatOther, "private", NoText, NoText, FALSE, 0)

SizeLimit == MAX_IMAGE_SIZE_MB * BYTES_PER_MB

\* [text, caption, photo, file_size]; file_size 0 is an unknown size.
Contents ==
  { <<TextA, NoText, FALSE, 0>>, <<Blank, NoText, FALSE, 0>>,
    <<NoText, NoText, TRUE, 0>>, <<NoText, TextB, TRUE, SizeLimit>>,
    <<NoText, TextB, TRUE, SizeLimit + 1>>, <<NoText, NoText, TRUE, SizeLimit + 1>> }

GroupPost(u, n, c, ty, k) == Post(TRUE, u, n, FALSE, c, ty, k[1], k[2], k[3], k[4])

EvaluablePosts ==
  {GroupPost(u, "nick", ChatA, "supergroup", k) : u \in Users, k \in Contents}
  \cup {GroupPost("u1", NoName, ChatB, "group", <<TextA, NoText, FALSE, 0>>),
        GroupPost("u2", "nick", ChatB, "group", <<NoText, TextB, TRUE, 0>>)}

\* The posts of the long runs: a text post of each user and a photo without a
\* caption, all in one chat.
SeqPosts ==
  { GroupPost("u1", "nick", ChatA, "supergroup", <<TextA, NoText, FALSE, 0>>),
    GroupPost("u2", "nick", ChatA, "supergroup", <<TextB, NoText, FALSE, 0>>),
    GroupPost("u2", "nick", ChatA, "supergroup", <<NoText, NoText, TRUE, 0>>) }

IgnoredPosts ==
  { NoPost,
    Post(TRUE, "u1", "nick", TRUE, ChatA, "supergroup", TextA, NoText, FALSE, 0),
    Post(TRUE, "u1", "nick", FALSE, ChatA, "private", TextA, NoText, FALSE, 0),
    Post(TRUE, "u1", "nick", FALSE, ChatOther, "supergroup", TextA, NoText, FALSE, 0),
    Post(TRUE, "u2", "nick", FALSE, ChatOther, "group", NoText, TextB, TRUE, 0) }

Posts == EvaluablePosts \cup IgnoredPosts

(* ------------------------------ the state ------------------------------ *)
VARIABLES
  safe_messages_count,  \* the trust ledger: user -> [count, username]
  safe_users_file,      \* safe_users.json: [state, data]
  recent_messages,      \* chat -> the window, oldest first
  BAN_FOR_IMAGE_SPAM,   \* configuration, read once at start
  handler,              \* task -> one invocation of handle_message
  arrived,              \* posts that have arrived so far
  update_queue,         \* arrived posts that wait for the handler, [post, seq]
  recorded              \* history: chat -> every append, [seq, text], in order

vars == <<safe_messages_count, safe_users_file, recent_messages,
          BAN_FOR_IMAGE_SPAM, handler, arrived, update_queue, recorded>>

EmptyLedger == [u \in {} |-> [count |-> 0, username |-> NoName]]

DefaultRecord == [count |-> 0, username |-> NoName]

\* defaultdict: a read of a missing key inserts the default record.
Touch(ledger, u) ==
  IF u \in DOMAIN ledger THEN ledger
  ELSE [x \in DOMAIN ledger \cup {u} |-> IF x = u THEN DefaultRecord ELSE ledger[x]]

Count(ledger, u) == IF u \in DOMAIN ledger THEN ledger[u].count ELSE 0

\* Mutant: the threshold is compared with <=.
IsEligibleMutant(ledger, u) == Count(ledger, u) <= TRUST_THRESHOLD

\* safe_messages_count[user_id]['count'] < 2
IsEligible(ledger, u) == Count(ledger, u) < TRUST_THRESHOLD

File(st, d) == [state |-> st, data |-> d]

load_safe_users(file) == IF file.state = "ok" THEN file.data ELSE EmptyLedger

\* update_safe_messages_count, before the save
\* Mutant: the post is marked as seen instead of counted.
IncrementMutant(ledger, u, n) ==
  LET l == Touch(ledger, u)
  IN [l EXCEPT ![u] = [count |-> 1, username |-> n]]

Increment(ledger, u, n) ==
  LET l == Touch(ledger, u)
  IN [l EXCEPT ![u] = [count |-> l[u].count + 1, username |-> n]]

\* Mutant: a full window drops its newest entry, not its oldest.
DequeAppendMutant(q, x) ==
  LET s == Append(q, x)
  IN IF Len(s) > WINDOW_CAPACITY THEN SubSeq(s, 1, WINDOW_CAPACITY) ELSE s

\* deque(maxlen=5).append
DequeAppend(q, x) ==
  LET s == Append(q, x)
  IN IF Len(s) > WINDOW_CAPACITY THEN Tail(s) ELSE s

\* A fresh invocation. seq (the post's arrival number) and count_at_entry (the
\* sender's safe count when its handling began) are history fields: the code
\* does not hold them.
NewTask(p, n, c) ==
  [pc |-> "entry", post |-> p, seq |-> n, count_at_entry |-> c, message_text |-> NoText, context_text |-> <<>>,
   text_is_spam |-> FALSE, image_is_spam |-> FALSE, should_ban |-> FALSE,
   can_delete |-> FALSE, can_restrict |-> FALSE, result |-> NoResult,
   action_log |-> <<>>, events |-> <<>>]

IdleTask == [NewTask(NoPost, 0, 0) EXCEPT !.pc = "idle"]

Terminal == {"done", "raised"}

InitialFiles ==
  {File("missing", EmptyLedger), File("corrupt", EmptyLedger)}
  \cup {File("ok", [u \in Users |-> [count |-> c[u], username |-> "old"]]) :
          c \in [Users -> 0..TRUST_THRESHOLD]}

Init ==
  /\ safe_users_file \in InitialFiles
  /\ safe_messages_count = load_safe_users(safe_users_file)
  /\ recent_messages = [c \in Chats |-> <<>>]
  /\ BAN_FOR_IMAGE_SPAM \in BOOLEAN
  /\ handler = [t \in Tasks |-> IdleTask]
  /\ arrived = 0
  /\ update_queue = <<>>
  /\ recorded = [c \in Chats |-> <<>>]

(* --------------------------- handle_message ---------------------------- *)
Outcomes == {"ok", "fail"}

\* open(file_path, 'w') fails: the file is untouched; json.dump fails after the
\* open truncated the file: what is left is not JSON.
SaveOutcomes == {"ok", "open_fail", "write_fail"}

Log(h, e) == [h EXCEPT !.events = Append(@, e)]

\* The classifier call, and logger.error of the except branch when it fails.
LogOracle(h, call, r) ==
  IF r.kind = "json" THEN Log(h, call) ELSE Log(Log(h, call), "oracle_error")

\* An awaited download step, and logger.error of line 266 when it fails.
LogDownload(h, call, o) ==
  IF o = "ok" THEN Log(h, call) ELSE Log(Log(h, call), "download_error")

\* Mutant: line 283 tests the text verdict alone.
AfterTextMutant(h) ==
  IF h.text_is_spam
  THEN [h EXCEPT !.pc = "get_chat_member"]
  ELSE [h EXCEPT !.pc = "update_safe_messages_count"]

\* Lines 268-283 when there is no text: the verdicts decide the branch.
AfterText(h) ==
  IF h.text_is_spam \/ h.image_is_spam
  THEN [h EXCEPT !.pc = "get_chat_member"]
  ELSE [h EXCEPT !.pc = "update_safe_messages_count"]

\* Lines 268-272: the text is classified when there is one.
AfterImage(h) ==
  IF HasText(h.post) THEN [h EXCEPT !.pc = "is_spam"] ELSE AfterText(h)

\* The task goes on; the windows are untouched.
Continue(t, h) ==
  /\ handler' = [handler EXCEPT ![t] = h]
  /\ UNCHANGED <<recent_messages, recorded>>

\* Lines 337-338, then the handler returns.
RecordAndReturn(t, h) ==
  LET chat == h.post.chat IN
  IF h.message_text # <<>>
  THEN /\ recent_messages' =
            [recent_messages EXCEPT ![chat] = DequeAppend(@, h.message_text)]
       /\ recorded' = [recorded EXCEPT ![chat] =
                          Append(@, [seq |-> h.seq, text |-> h.message_text])]
       /\ handler' = [handler EXCEPT ![t] = [Log(h, "append") EXCEPT !.pc = "done"]]
  ELSE /\ handler' = [handler EXCEPT ![t] = [h EXCEPT !.pc = "done"]]
       /\ UNCHANGED <<recent_messages, recorded>>

\* An exception leaves handle_message.
Raise(t, h) == Continue(t, [h EXCEPT !.pc = "raised"])

\* Mutant: an image verdict bans whatever the policy says.
ShouldBanMutant(text_spam, image_spam, ban_for_image) == text_spam \/ image_spam

\* should_ban as lines 248, 263-264 and 271-272 leave it.
ShouldBan(text_spam, image_spam, ban_for_image) ==
  text_spam \/ (image_spam /\ ban_for_image)

\* Mutant: the ban is attempted without the can_restrict test.
BanStageMutant(t, h) ==
  IF h.should_ban
  THEN Continue(t, [h EXCEPT !.pc = "ban_chat_member"])
  ELSE RecordAndReturn(t, Log([h EXCEPT !.action_log =
         Append(@, "User not banned (image spam only)")], "audit"))

\* Lines 316-331: the ban is due, or the record is closed and emitted.
BanStage(t, h) ==
  IF h.should_ban /\ h.can_restrict
  THEN Continue(t, [h EXCEPT !.pc = "ban_chat_member"])
  ELSE LET note == IF h.should_ban THEN "No permission to ban user"
                   ELSE "User not banned (image spam only)"
       IN RecordAndReturn(t, Log([h EXCEPT !.action_log = Append(@, note)], "audit"))

\* No run of handle_message occupies slot s.
Free(s) == handler[s].pc \in Terminal \cup {"idle"}

\* Mutant: the application is built with concurrent_updates, and takes the
\* next update while earlier ones are still being handled.
SerializedMutant == TRUE

\* main(): the application is built without concurrent_updates, so it takes
\* the next update only when the handling of the previous one has returned or
\* raised.
Serialized == \A s \in Tasks : Free(s)

\* The application calls handle_message on post p, the n-th to arrive; the run
\* takes the lowest free slot.
Start(t, p, n) ==
  /\ Serialized
  /\ Free(t)
  /\ \A s \in Tasks : s < t => ~Free(s)
  /\ handler' = [handler EXCEPT ![t] =
        NewTask(p, n,
                IF p.has_user THEN Count(safe_messages_count, p.user) ELSE 0)]
  /\ UNCHANGED <<safe_messages_count, safe_users_file, recent_messages,
                 BAN_FOR_IMAGE_SPAM, recorded>>

\* An update arrives while none is waiting and none is being handled, and is
\* handed to handle_message at once.
Dispatch(t, p) ==
  /\ update_queue = <<>>
  /\ Start(t, p, arrived + 1)
  /\ arrived' = arrived + 1
  /\ UNCHANGED update_queue

Arrive(t) ==
  /\ arrived < MaxPosts
  /\ \E p \in Posts : Dispatch(t, p)

\* Lines 224-257 and 334-341: the guards, the eligibility test, the size test.
Entry(t) ==
  LET h0 == handler[t]
      p == h0.post
      h == [h0 EXCEPT !.message_text = MessageText(p)]
  IN
  /\ h0.pc = "entry"
  /\ UNCHANGED <<safe_users_file, BAN_FOR_IMAGE_SPAM, arrived,
                 update_queue>>
  /\ IF ~p.has_user
     THEN /\ Continue(t, [h0 EXCEPT !.pc = "done"])
          /\ UNCHANGED safe_messages_count
     ELSE IF ~InAllowedChats(p.chat)
     THEN /\ Continue(t, [h EXCEPT !.pc = "done"])
          /\ UNCHANGED safe_messages_count
     ELSE IF ~(p.chat_type \in GroupTypes /\ ~p.is_bot)
     THEN /\ Continue(t, [h EXCEPT !.pc = "done"])
          /\ UNCHANGED safe_messages_count
     ELSE /\ safe_messages_count' = Touch(safe_messages_count, p.user)
          /\ IF IsEligible(safe_messages_count, p.user)
             THEN LET h1 == [h EXCEPT !.context_text = recent_messages[p.chat]]
                  IN IF HasPhoto(p) /\ ~Oversized(p)
                     THEN Continue(t, [h1 EXCEPT !.pc = "get_file"])
                     ELSE Continue(t, AfterImage(h1))
             ELSE RecordAndReturn(t, h)

\* Line 259; a failure is caught at line 265.
GetFile(t) ==
  /\ handler[t].pc = "get_file"
  /\ \E o \in Outcomes :
       LET h == LogDownload(handler[t], "get_file", o) IN
       IF o = "ok" THEN Continue(t, [h EXCEPT !.pc = "download_as_bytearray"])
       ELSE Continue(t, AfterImage(h))
  /\ UNCHANGED <<safe_messages_count, safe_users_file, BAN_FOR_IMAGE_SPAM, arrived,
                 update_queue>>

\* Line 260; a failure is caught at line 265.
Download(t) ==
  /\ handler[t].pc = "download_as_bytearray"
  /\ \E o \in Outcomes :
       LET h == LogDownload(handler[t], "download", o) IN
       IF o = "ok" THEN Continue(t, [h EXCEPT !.pc = "is_image_spam"])
       ELSE Continue(t, AfterImage(h))
  /\ UNCHANGED <<safe_messages_count, safe_users_file, BAN_FOR_IMAGE_SPAM, arrived,
                 update_queue>>

\* Lines 261-264 with is_image_spam (174-218).
ImageClassification(t, replies) ==
  /\ handler[t].pc = "is_image_spam"
  /\ \E r \in replies :
       LET v == Classify(r)
           h == LogOracle(handler[t], "image_oracle", r)
       IN Continue(t, AfterImage([h EXCEPT !.result = r, !.image_is_spam = v,
              !.should_ban = ShouldBan(FALSE, v, BAN_FOR_IMAGE_SPAM)]))
  /\ UNCHANGED <<safe_messages_count, safe_users_file, BAN_FOR_IMAGE_SPAM, arrived,
                 update_queue>>

\* Lines 269-272 with is_spam (106-143).
TextClassification(t, replies) ==
  /\ handler[t].pc = "is_spam"
  /\ \E r \in replies :
       LET v == Classify(r)
           h == LogOracle(handler[t], "text_oracle", r)
       IN Continue(t, AfterText([h EXCEPT !.result = r, !.text_is_spam = v,
              !.should_ban = ShouldBan(v, h.image_is_spam, BAN_FOR_IMAGE_SPAM)]))
  /\ UNCHANGED <<safe_messages_count, safe_users_file, BAN_FOR_IMAGE_SPAM, arrived,
                 update_queue>>

IsImageSpam(t) == ImageClassification(t, Responses)

IsSpam(t) == TextClassification(t, Responses)

\* Lines 284-303: the capability query is not guarded by a try.
GetChatMember(t) ==
  LET h == Log([handler[t] EXCEPT !.result = NoResult], "get_chat_member") IN
  /\ handler[t].pc = "get_chat_member"
  /\ \/ Raise(t, h)
     \/ \E cd \in BOOLEAN, cr \in BOOLEAN :
          Continue(t, [h EXCEPT !.can_delete = cd, !.can_restrict = cr,
                       !.pc = IF cd THEN "delete_message" ELSE "send_message"])
  /\ UNCHANGED <<safe_messages_count, safe_users_file, BAN_FOR_IMAGE_SPAM, arrived,
                 update_queue>>

\* Mutant: the deleted post keeps its text.
DeletedMutant(h) == [h EXCEPT !.action_log = Append(@, "Message deleted")]

\* Lines 306-308: the delete succeeded.
Deleted(h) ==
  [h EXCEPT !.action_log = Append(@, "Message deleted"),
            !.message_text = SpamPlaceholder]

\* Lines 303-311.
DeleteMessage(t) ==
  LET h == Log(handler[t], "delete_message") IN
  /\ handler[t].pc = "delete_message"
  /\ \E o \in Outcomes :
       IF o = "ok"
       THEN BanStage(t, Deleted(h))
       ELSE BanStage(t, [h EXCEPT !.action_log = Append(@, "Failed to delete message")])
  /\ UNCHANGED <<safe_messages_count, safe_users_file, BAN_FOR_IMAGE_SPAM, arrived,
                 update_queue>>

\* Lines 312-314: the notice is not guarded by a try.
SendMessage(t) ==
  LET h == Log(handler[t], "send_message") IN
  /\ handler[t].pc = "send_message"
  /\ \E o \in Outcomes :
       IF o = "ok"
       THEN BanStage(t, [h EXCEPT !.action_log =
                                    Append(@, "No permission to delete message")])
       ELSE Raise(t, h)
  /\ UNCHANGED <<safe_messages_count, safe_users_file, BAN_FOR_IMAGE_SPAM, arrived,
                 update_queue>>

\* Lines 317-324, then 331 and 337-338.
BanChatMember(t) ==
  LET h == Log(handler[t], "ban_chat_member") IN
  /\ handler[t].pc = "ban_chat_member"
  /\ \E o \in Outcomes :
       LET note == IF o = "ok" THEN "User banned" ELSE "Failed to ban user"
       IN RecordAndReturn(t, Log([h EXCEPT !.action_log = Append(@, note)], "audit"))
  /\ UNCHANGED <<safe_messages_count, safe_users_file, BAN_FOR_IMAGE_SPAM, arrived,
                 update_queue>>

\* Lines 332-333 with update_safe_messages_count (343-346) and save_safe_users
\* (48-51), then 337-338.
UpdateSafeMessagesCount(t) ==
  LET h == Log([handler[t] EXCEPT !.result = NoResult], "save")
      ledger == Increment(safe_messages_count, h.post.user, h.post.username)
  IN
  /\ handler[t].pc = "update_safe_messages_count"
  /\ safe_messages_count' = ledger
  /\ \E o \in SaveOutcomes :
       CASE o = "ok" ->
              /\ safe_users_file' = File("ok", ledger)
              /\ RecordAndReturn(t, h)
         [] o = "open_fail" ->
              /\ UNCHANGED safe_users_file
              /\ Raise(t, h)
         [] o = "write_fail" ->
              /\ safe_users_file' = File("corrupt", EmptyLedger)
              /\ Raise(t, h)
  /\ UNCHANGED <<BAN_FOR_IMAGE_SPAM, arrived,
                 update_queue>>

Next ==
  \E t \in Tasks :
    \/ Arrive(t)
    \/ Entry(t)
    \/ GetFile(t)
    \/ Download(t)
    \/ IsImageSpam(t)
    \/ IsSpam(t)
    \/ GetChatMember(t)
    \/ DeleteMessage(t)
    \/ SendMessage(t)
    \/ BanChatMember(t)
    \/ UpdateSafeMessagesCount(t)

Spec == Init /\ [][Next]_vars

(* ------------------------------ long runs ------------------------------ *)

SeqFile ==
  File("ok", [u \in Users |->
    [count |-> IF u = "u1" THEN TRUST_THRESHOLD ELSE 0, username |-> "old"]])

\* The long runs start from the default configuration (BAN_FOR_IMAGE_SPAM
\* unset) and a ledger file that holds u1 as trusted.
InitSeq ==
  /\ Init
  /\ safe_users_file = SeqFile
  /\ BAN_FOR_IMAGE_SPAM = FALSE

\* The oracle's replies in the long runs: a failed call, a clean verdict and a
\* spam verdict.
SeqResponses ==
  { Reply("raise", JFalse, 0, 0), Reply("json", JFalse, 50, 0),
    Reply("json", JTrue, 90, MIN_SIGNS) }

IsImageSpamSeq(t) == ImageClassification(t, SeqResponses)

IsSpamSeq(t) == TextClassification(t, SeqResponses)

ArriveSeq(t) ==
  /\ arrived < MaxSeqPosts
  /\ \E p \in SeqPosts : Dispatch(t, p)

NextSeq ==
  \E t \in Tasks :
    \/ ArriveSeq(t)
    \/ Entry(t)
    \/ GetFile(t)
    \/ Download(t)
    \/ IsImageSpamSeq(t)
    \/ IsSpamSeq(t)
    \/ GetChatMember(t)
    \/ DeleteMessage(t)
    \/ SendMessage(t)
    \/ BanChatMember(t)
    \/ UpdateSafeMessagesCount(t)

SpecSeq == InitSeq /\ [][NextSeq]_vars

(* ------------------------- posts that overlap -------------------------- *)
\* The posts that arrive while others are handled: those of the long runs.
QueuePosts == SeqPosts

\* run_polling: an update arrives at any time, whatever the handler is doing,
\* and joins the application's queue of updates.
UpdateArrives ==
  /\ arrived < MaxQueued
  /\ \E p \in QueuePosts :
       update_queue' = Append(update_queue, [post |-> p, seq |-> arrived + 1])
  /\ arrived' = arrived + 1
  /\ UNCHANGED <<safe_messages_count, safe_users_file, recent_messages,
                 BAN_FOR_IMAGE_SPAM, handler, recorded>>

\* The application takes the update at the head of its queue and calls
\* handle_message on it.
ProcessUpdate(t) ==
  /\ update_queue # <<>>
  /\ Start(t, Head(update_queue).post, Head(update_queue).seq)
  /\ update_queue' = Tail(update_queue)
  /\ UNCHANGED arrived

NextQueue ==
  \/ UpdateArrives
  \/ \E t \in Tasks :
       \/ ProcessUpdate(t)
       \/ Entry(t)
       \/ GetFile(t)
       \/ Download(t)
       \/ IsImageSpamSeq(t)
       \/ IsSpamSeq(t)
       \/ GetChatMember(t)
       \/ DeleteMessage(t)
       \/ SendMessage(t)
       \/ BanChatMember(t)
       \/ UpdateSafeMessagesCount(t)

SpecQueue == InitSeq /\ [][NextQueue]_vars

(* ------------------------- reading the state -------------------------- *)
Has(h, e) == \E i \in DOMAIN h.events : h.events[i] = e

Times(h, e) == Cardinality({i \in DOMAIN h.events : h.events[i] = e})

Logged(h, note) == \E i \in DOMAIN h.action_log : h.action_log[i] = note

Active(h) == h.pc # "idle" /\ h.post.has_user

\* The post passes the guards of lines 225, 237 and 241.
NotIgnored(h) ==
  /\ Active(h)
  /\ h.post.chat \in allowed_chats
  /\ h.post.chat_type \in {"group", "supergroup"}
  /\ ~h.post.is_bot

Evaluated(h) == NotIgnored(h) /\ h.count_at_entry < 2

\* The events a step adds to task t (a dispatch starts a new list).
NewEvents(t) ==
  IF handler'[t].seq # handler[t].seq THEN handler'[t].events
  ELSE SubSeq(handler'[t].events, Len(handler[t].events) + 1, Len(handler'[t].events))

ClassifierEvents == {"get_file", "download", "image_oracle", "text_oracle"}

ActionEvents == {"delete_message", "send_message", "ban_chat_member"}

\* The verdict the reply held in result has just produced.
VerdictOfResult(h) ==
  IF Has(h, "text_oracle") THEN h.text_is_spam ELSE h.image_is_spam

LastN(q, n) == IF Len(q) <= n THEN q ELSE SubSeq(q, Len(q) - n + 1, Len(q))

Texts(q) == [i \in DOMAIN q |-> q[i].text]

(* ------------------------------- claims -------------------------------- *)

\* C1: once a user's safe count is 2 or more, no step of the handling of a
\* post of that user adds a classifier call or an image download.
C1_EligibilityShortCircuit ==
  [][\A t \in Tasks :
       (Active(handler[t])
        /\ Count(safe_messages_count, handler[t].post.user) >= 2
        /\ handler'[t].seq = handler[t].seq)
       => \A i \in DOMAIN NewEvents(t) : NewEvents(t)[i] \notin ClassifierEvents]_vars

\* C1 witness: u2, who started at 0, has earned the count 2, and a later post
\* of u2 has been handled to the end with the append as its only event.
C1_Witness ==
  \E t \in Tasks :
    /\ handler[t].pc = "done"
    /\ handler[t].post.user = "u2"
    /\ handler[t].count_at_entry = 2
    /\ handler[t].events = <<"append">>

\* C2 (as claimed): a reply that is not of the Verdict shape (the call
\* raised, the content is not JSON, a key is missing, or is_spam is not a
\* boolean) gives the verdict false for its modality.
C2_FailClosed ==
  \A t \in Tasks :
    LET r == handler[t].result IN
    (r.kind # "none" /\ ~(r.kind = "json" /\ r.is_spam \in {JTrue, JFalse}))
    => ~VerdictOfResult(handler[t])

\* C3: for a reply of the Verdict shape the verdict of either path is
\* (is_spam and confidence >= 0.7) or (signs >= 2 and confidence >= 0.6).
C3_DecisionRule ==
  \A t \in Tasks :
    LET r == handler[t].result
        v == VerdictOfResult(handler[t])
    IN (r.kind = "json" /\ r.is_spam \in {JTrue, JFalse}) =>
         /\ v = ((r.is_spam = JTrue /\ r.confidence >= 70)
                 \/ (r.signs >= 2 /\ r.confidence >= 60))
         /\ (r.is_spam = JTrue /\ r.confidence = 70 /\ r.signs = 0 => v)
         /\ (r.is_spam = JFalse /\ r.confidence = 90 /\ r.signs = 3 => v)
         /\ (r.is_spam = JTrue /\ r.confidence = 50 /\ r.signs = 0 => ~v)
         /\ (r.is_spam = JFalse /\ r.signs < 2 => ~v)

\* C3 witness: the text path has turned the reply (false, 0.9, 3 signs) into
\* the verdict spam.
C3_Witness ==
  \E t \in Tasks :
    /\ handler[t].result = Reply("json", JFalse, 90, 3)
    /\ Has(handler[t], "text_oracle")
    /\ handler[t].text_is_spam

\* C4: every window holds at most 5 entries, and they are the texts of the 5
\* latest appends of its chat, in the order of arrival of their posts.
C4_WindowBound ==
  \A c \in Chats :
    /\ Len(recent_messages[c]) <= 5
    /\ recent_messages[c] = Texts(LastN(recorded[c], 5))
    /\ \A i \in DOMAIN recorded[c], j \in DOMAIN recorded[c] :
         i < j => recorded[c][i].seq < recorded[c][j].seq

\* C4 witness: a chat has had more than 5 appends, a flagged and deleted post
\* among those still in the window, and the oldest entry has been evicted.
C4_Witness ==
  \E c \in Chats :
    /\ Len(recorded[c]) > 5
    /\ \E i \in DOMAIN recent_messages[c] : recent_messages[c][i] = SpamPlaceholder
    /\ \E i \in DOMAIN recent_messages[c] : recent_messages[c][i] = TextA

\* The entry the handling of the post of h has appended to its chat's window.
EntryOf(h) ==
  LET q == recorded[h.post.chat]
      at == {i \in DOMAIN q : q[i].seq = h.seq}
  IN q[CHOOSE i \in at : TRUE].text

OriginalText(post) == IF post.text # <<>> THEN post.text ELSE post.caption

\* C5 (as claimed): the entry a post's handling appends is the post's
\* original text, or its caption when it has no text.
C5_OriginalText ==
  \A t \in Tasks :
    Has(handler[t], "append") => EntryOf(handler[t]) = OriginalText(handler[t].post)

\* C5 (amended): the entry is the original text or caption, unless the post
\* was flagged and its deletion succeeded: then it is the placeholder.
C5_TextOrPlaceholder ==
  \A t \in Tasks :
    Has(handler[t], "append") =>
      EntryOf(handler[t]) =
        IF Logged(handler[t], "Message deleted")
        THEN <<"here was a spam message">>
        ELSE OriginalText(handler[t].post)

\* C5 witness: a flagged post with a caption was deleted and the placeholder
\* is the entry its handling appended.
C5_Witness ==
  \E t \in Tasks :
    /\ handler[t].pc = "done"
    /\ Logged(handler[t], "Message deleted")
    /\ handler[t].post.caption = TextB
    /\ Has(handler[t], "append")
    /\ EntryOf(handler[t]) = SpamPlaceholder

\* C6: the handling of a post of a chat outside the allow-list changes neither
\* the ledger, nor its file, nor any window, makes no call and ends.
C6_AllowListScoping ==
  [][\A t \in Tasks :
       (handler[t].pc = "entry" /\ handler[t].post.has_user
        /\ handler[t].post.chat \notin allowed_chats)
       => /\ UNCHANGED <<safe_messages_count, safe_users_file, recent_messages>>
          /\ handler'[t].pc = "done"
          /\ handler'[t].events = <<>>]_vars

\* C6 witness: a group post of a person in a chat outside the allow-list has
\* been handled to the end.
C6_Witness ==
  \E t \in Tasks :
    /\ handler[t].pc = "done"
    /\ handler[t].post.has_user
    /\ handler[t].post.chat = ChatOther
    /\ handler[t].post.chat_type \in GroupTypes
    /\ ~handler[t].post.is_bot
    /\ handler[t].post.photo

Flagged(h) == h.text_is_spam \/ h.image_is_spam

\* C7 (as claimed): the handling of a flagged post never ends in an
\* exception; when it has ended, the incident's record has been emitted and
\* the ban that was due has been attempted.
C7_SequencerNeverRaises ==
  \A t \in Tasks :
    LET h == handler[t] IN
    Flagged(h) =>
      /\ h.pc # "raised"
      /\ (h.pc = "done" =>
            /\ Times(h, "audit") = 1
            /\ (h.should_ban /\ h.can_restrict => Has(h, "ban_chat_member")))

\* C8 (as claimed): when the handling of a post that is not ignored and has a
\* text or a caption has ended, it has appended exactly one entry.
C8_EveryPostRecorded ==
  \A t \in Tasks :
    LET h == handler[t] IN
    (h.pc \in Terminal /\ NotIgnored(h) /\ OriginalText(h.post) # <<>>)
    => /\ Times(h, "append") = 1
       /\ Cardinality({i \in DOMAIN recorded[h.post.chat] :
                         recorded[h.post.chat][i].seq = h.seq}) = 1

\* C9: no step lowers a safe count or changes the record of a user other
\* than the sender; when the handling of an evaluated post has ended, the
\* sender's count is the count at the post's arrival plus 1 if neither verdict
\* is spam, and that count unchanged if the post is flagged.
C9_TrustCounter ==
  [][/\ \A u \in Users :
          Count(safe_messages_count', u) >= Count(safe_messages_count, u)
     /\ \A u \in Users :
          (\A t \in Tasks :
             ~(handler[t].pc \notin Terminal \cup {"idle"}
               /\ handler[t].post.has_user /\ handler[t].post.user = u))
          => /\ (u \in DOMAIN safe_messages_count') = (u \in DOMAIN safe_messages_count)
             /\ (u \in DOMAIN safe_messages_count
                   => safe_messages_count'[u] = safe_messages_count[u])
     /\ \A t \in Tasks :
          LET h == handler'[t] IN
          (h.pc \in Terminal /\ Evaluated(h))
          => Count(safe_messages_count', h.post.user)
               = h.count_at_entry + (IF Flagged(h) THEN 0 ELSE 1)]_vars

\* C9 witness: u2's clean post has raised the count from 1 to 2.
C9_Witness ==
  \E t \in Tasks :
    /\ handler[t].pc = "done"
    /\ handler[t].post.user = "u2"
    /\ handler[t].count_at_entry = 1
    /\ Has(handler[t], "text_oracle")
    /\ ~Flagged(handler[t])
    /\ Count(safe_messages_count, "u2") = 2

\* C10: a ban is attempted only when text_is_spam or (image_is_spam and the
\* image-ban policy) holds and can_restrict is true; with the policy off, a
\* post flagged by its image alone is handled to the end without a ban
\* attempt, and with a delete attempt when can_delete holds.
C10_BanEligibility ==
  \A t \in Tasks :
    LET h == handler[t] IN
    /\ (h.pc = "ban_chat_member" \/ Has(h, "ban_chat_member"))
       => /\ h.text_is_spam \/ (h.image_is_spam /\ BAN_FOR_IMAGE_SPAM)
          /\ h.can_restrict
    /\ (h.image_is_spam /\ ~h.text_is_spam /\ ~BAN_FOR_IMAGE_SPAM)
       => /\ h.pc # "ban_chat_member"
          /\ ~Has(h, "ban_chat_member")
          /\ (h.pc \in Terminal /\ h.can_delete => Has(h, "delete_message"))

\* C10 witness: with the policy off, a post flagged by its image alone was
\* deleted and, the bot being able to restrict, no ban was attempted.
C10_Witness ==
  \E t \in Tasks :
    LET h == handler[t] IN
    /\ h.pc = "done"
    /\ h.image_is_spam /\ ~h.text_is_spam /\ ~BAN_FOR_IMAGE_SPAM
    /\ h.can_delete /\ h.can_restrict
    /\ Has(h, "delete_message")
    /\ ~Has(h, "ban_chat_member")

\* C11 (as claimed): when the handling of a flagged post with can_delete
\* false, can_restrict true and should_ban true has ended, no delete was
\* attempted, one notice was sent, the ban was attempted and its result is in
\* the emitted record.
C11_MissingDeletePermission ==
  \A t \in Tasks :
    LET h == handler[t] IN
    (h.pc \in Terminal /\ Flagged(h) /\ Has(h, "get_chat_member")
     /\ ~h.can_delete /\ h.can_restrict /\ h.should_ban)
    => /\ ~Has(h, "delete_message")
       /\ ~Logged(h, "Message deleted")
       /\ Times(h, "send_message") = 1
       /\ Logged(h, "No permission to delete message")
       /\ Times(h, "ban_chat_member") = 1
       /\ (Logged(h, "User banned") \/ Logged(h, "Failed to ban user"))
       /\ Times(h, "audit") = 1

\* C12: when the handling of a flagged post with can_delete true,
\* can_restrict false and should_ban true has ended, the delete was attempted,
\* no ban was attempted, no notice was sent, and the emitted record says that
\* there is no permission to ban.
C12_MissingRestrictPermission ==
  \A t \in Tasks :
    LET h == handler[t] IN
    (Flagged(h) /\ h.can_delete /\ ~h.can_restrict /\ h.should_ban)
    => /\ h.pc # "ban_chat_member"
       /\ ~Has(h, "ban_chat_member")
       /\ ~Has(h, "send_message")
       /\ h.pc # "raised"
       /\ (h.pc = "done" =>
             /\ Times(h, "delete_message") = 1
             /\ Logged(h, "No permission to ban user")
             /\ ~Logged(h, "User banned")
             /\ Times(h, "audit") = 1)

\* C12 witness: such a post has been handled to the end, its delete having
\* failed.
C12_Witness ==
  \E t \in Tasks :
    LET h == handler[t] IN
    /\ h.pc = "done"
    /\ h.text_is_spam /\ h.should_ban
    /\ h.can_delete /\ ~h.can_restrict
    /\ Logged(h, "Failed to delete message")
    /\ Logged(h, "No permission to ban user")

\* The texts of the window as left by the posts that arrived before h's.
ContextBefore(h) ==
  LET Earlier(e) == e.seq < h.seq
  IN Texts(LastN(SelectSeq(recorded[h.post.chat], Earlier), 5))

\* C13: posts that arrive while another post is being evaluated are handled
\* as if one after the other in arrival order: no two evaluations are under
\* way at once and a waiting post arrived after the one being handled; the
\* appends to a window are in arrival order; the context an evaluation has
\* read is the window left by all posts that arrived earlier; and when a clean
\* post's handling has ended the sender's count is one more than at its start.
C13_SerialOutcome ==
  /\ \A s, t \in Tasks : (~Free(s) /\ ~Free(t)) => s = t
  /\ \A i \in DOMAIN update_queue, t \in Tasks :
       /\ handler[t].seq < update_queue[i].seq
       /\ \A j \in DOMAIN update_queue :
            i < j => update_queue[i].seq < update_queue[j].seq
  /\ \A c \in Chats :
       \A i \in DOMAIN recorded[c], j \in DOMAIN recorded[c] :
         i < j => recorded[c][i].seq < recorded[c][j].seq
  /\ \A t \in Tasks :
       LET h == handler[t] IN
       /\ (Evaluated(h) /\ h.pc # "entry") => h.context_text = ContextBefore(h)
       /\ (Evaluated(h) /\ ~Flagged(h) /\ h.pc \in Terminal)
          => Count(safe_messages_count, h.post.user) = h.count_at_entry + 1

\* C13 witness: u2's second text post is suspended in its classifier call,
\* having read a context that holds u2's first post, while a third post of u2
\* to the same chat, arrived during an evaluation, waits its turn.
C13_Witness ==
  \E t \in Tasks :
    LET h == handler[t] IN
    /\ h.pc = "is_spam" /\ h.seq = 2
    /\ h.post.user = "u2" /\ h.count_at_entry = 1
    /\ h.context_text = <<TextB>>
    /\ update_queue # <<>>
    /\ Head(update_queue).post.user = "u2"
    /\ Head(update_queue).post.chat = h.post.chat

\* C14: each call of update_safe_messages_count raises the sender's count by
\* exactly one, sets the cached name to the post's, leaves every other user's
\* record as it was, and when the call returns the file holds the same count
\* as the ledger for every user.
C14_RecordSafeCounts ==
  [][\A t \in Tasks :
       LET h == handler[t]
           u == h.post.user
       IN
       (h.pc = "update_safe_messages_count" /\ handler'[t].pc # h.pc)
       => /\ Count(safe_messages_count', u) = Count(safe_messages_count, u) + 1
          /\ safe_messages_count'[u].username = h.post.username
          /\ \A v \in Users \ {u} :
               /\ (v \in DOMAIN safe_messages_count')
                    = (v \in DOMAIN safe_messages_count)
               /\ (v \in DOMAIN safe_messages_count
                     => safe_messages_count'[v] = safe_messages_count[v])
          /\ (handler'[t].pc = "done"
                => /\ safe_users_file'.state = "ok"
                   /\ \A v \in Users :
                        Count(load_safe_users(safe_users_file'), v)
                          = Count(safe_messages_count', v))]_vars

\* C14 witness: the same post of u2 was handled twice, both times as clean,
\* and the second call has returned: the count went from 0 to 2, the name was
\* replaced, and the file holds the ledger.
C14_Witness ==
  \E t \in Tasks :
    LET h == handler[t] IN
    /\ h.pc = "done" /\ h.seq = 2
    /\ Has(h, "save")
    /\ Texts(recorded[ChatA]) = <<TextB, TextB>>
    /\ safe_messages_count["u2"] = [count |-> 2, username |-> "nick"]
    /\ safe_users_file = File("ok", safe_messages_count)

\* C15: handling a post of an allow-listed chat whose sender is a bot, or
\* whose chat is neither a group nor a supergroup, ends at once: no classifier
\* call, no change of the ledger or its file, no append to a window, and no
\* moderation action.
C15_BotAndNonGroupIgnored ==
  [][\A t \in Tasks :
       LET p == handler[t].post IN
       (handler[t].pc = "entry" /\ p.has_user /\ p.chat \in allowed_chats
        /\ (p.is_bot \/ p.chat_type \notin {"group", "supergroup"}))
       => /\ UNCHANGED <<safe_messages_count, safe_users_file, recent_messages,
                         recorded>>
          /\ handler'[t].pc = "done"
          /\ handler'[t].events = <<>>
          /\ handler'[t].action_log = <<>>]_vars

\* C15 witness: a post of a private chat whose id is allow-listed, and a
\* bot's post in an allow-listed supergroup, can each have been handled.
C15_Witness ==
  \E t \in Tasks :
    LET h == handler[t] IN
    /\ h.pc = "done" /\ h.post.has_user
    /\ h.post.chat = ChatA
    /\ h.post.chat_type = "private" \/ h.post.is_bot
    /\ h.events = <<>>
    /\ recent_messages[ChatA] = <<>>

\* C16 (as claimed): an evaluated post's oversized image is never downloaded
\* or classified and its image verdict is false, while its text is still
\* classified; an image at or below the ceiling, or of unknown size, has been
\* downloaded and classified when the handling ends.
C16_OversizedSkipped ==
  \A t \in Tasks :
    LET h == handler[t] IN
    (Evaluated(h) /\ h.post.photo)
    => IF h.post.file_size > SizeLimit
       THEN /\ ~Has(h, "get_file") /\ ~Has(h, "download")
            /\ ~Has(h, "image_oracle")
            /\ ~h.image_is_spam
            /\ (h.pc \in Terminal /\ HasText(h.post) => Has(h, "text_oracle"))
       ELSE h.pc \in Terminal
            => /\ Has(h, "get_file") /\ Has(h, "download")
               /\ Has(h, "image_oracle")

\* C16 (amended): as above, but an image at or below the ceiling is fetched,
\* and it is classified exactly when both steps of the download succeeded.
C16_OversizedSkippedOrFetched ==
  \A t \in Tasks :
    LET h == handler[t] IN
    (Evaluated(h) /\ h.post.photo)
    => IF h.post.file_size > SizeLimit
       THEN /\ ~Has(h, "get_file") /\ ~Has(h, "download")
            /\ ~Has(h, "image_oracle")
            /\ ~h.image_is_spam
            /\ (h.pc \in Terminal /\ HasText(h.post) => Has(h, "text_oracle"))
       ELSE /\ h.pc \notin {"entry", "get_file"} => Times(h, "get_file") = 1
            /\ h.pc \in Terminal
               => /\ Times(h, "image_oracle")
                       = (IF Has(h, "download_error") THEN 0 ELSE 1)
                  /\ ~Has(h, "download_error") => Times(h, "download") = 1

\* C16 witness: a captioned image one byte over the ceiling was skipped and
\* its caption classified as spam.
C16_Witness ==
  \E t \in Tasks :
    LET h == handler[t] IN
    /\ h.pc = "done" /\ Evaluated(h)
    /\ h.post.photo /\ h.post.file_size = SizeLimit + 1
    /\ h.events[1] = "text_oracle"
    /\ h.text_is_spam /\ ~h.image_is_spam

\* Every occurrence of event a in the task's history lies before every
\* occurrence of event b.
Before(h, a, b) ==
  \A i, j \in DOMAIN h.events :
    (h.events[i] = a /\ h.events[j] = b) => i < j

\* C17 (as claimed): when the handling of a flagged post has ended, the
\* capabilities were queried exactly once, after every classifier call and
\* before every action; the delete attempt or the notice came before the ban
\* attempt; and exactly one record was emitted, after all actions.
C17_SequencerOrder ==
  \A t \in Tasks :
    LET h == handler[t] IN
    (h.pc \in Terminal /\ Evaluated(h) /\ Flagged(h))
    => /\ Times(h, "get_chat_member") = 1
       /\ \A e \in ClassifierEvents : Before(h, e, "get_chat_member")
       /\ \A e \in ActionEvents : Before(h, "get_chat_member", e)
       /\ Before(h, "delete_message", "ban_chat_member")
       /\ Before(h, "send_message", "ban_chat_member")
       /\ Times(h, "audit") = 1
       /\ \A e \in ActionEvents : Before(h, e, "audit")

\* C18: a capability query, a delete, a notice or a ban is made or pending
\* only for a post that was evaluated and whose text or image verdict is spam;
\* so a clean post, and a post of a sender whose count was already 2, is never
\* deleted and its sender never banned.
C18_ActionsOnlyOnFlagged ==
  \A t \in Tasks :
    LET h == handler[t] IN
    ( \/ \E e \in ActionEvents \cup {"get_chat_member"} : Has(h, e)
      \/ h.pc \in ActionEvents \cup {"get_chat_member"}
      \/ h.action_log # <<>> )
    => /\ Evaluated(h)
       /\ Flagged(h)
       /\ Has(h, "text_oracle") \/ Has(h, "image_oracle")

\* C18 witness: an evaluated post was classified as clean and handled to the
\* end with no query and no action.
C18_Witness ==
  \E t \in Tasks :
    LET h == handler[t] IN
    /\ h.pc = "done" /\ Evaluated(h) /\ ~Flagged(h)
    /\ h.result.kind = "none"
    /\ h.events = <<"text_oracle", "save", "append">>

\* C19: no user's count, in the ledger or in its file, ever exceeds 2.
C19_CountCapped ==
  /\ \A u \in DOMAIN safe_messages_count :
       safe_messages_count[u].count <= 2
  /\ \A u \in Users : Count(load_safe_users(safe_users_file), u) <= 2

\* C19 witness: both users stand at 2 and a further post of u2, who earned the
\* count during the run, has been handled.
C19_Witness ==
  /\ \A u \in Users : Count(safe_messages_count, u) = 2
  /\ arrived >= 4
  /\ \E t \in Tasks :
       /\ handler[t].pc = "done"
       /\ handler[t].post.user = "u2"
       /\ handler[t].count_at_entry = 2
       /\ ~Has(handler[t], "save")

\* Some classifier call of the task produced a verdict.
VerdictObtained(h) ==
  Times(h, "text_oracle") + Times(h, "image_oracle") > Times(h, "oracle_error")

\* C20 (as claimed): the count is advanced only for a post for which some
\* classifier call produced a verdict, and that verdict was not spam.
C20_TrustOnlyByVerdict ==
  \A t \in Tasks :
    LET h == handler[t] IN
    (h.pc = "update_safe_messages_count" \/ Has(h, "save"))
    => VerdictObtained(h) /\ ~Flagged(h)

====
